---- MODULE Spec2Model ----
(***************************************************************************)
(* Model of the Dashboard component of medi-supply                         *)
(* (src/components/HospitalNetwork.tsx, lines 155-267 and the two controls  *)
(* at lines 301-320): the location pipeline (locateUser, fetchIpLocation,   *)
(* fetchLocalInsights, getAddressFromCoords) and the analysis runner        *)
(* (runAnalysis, addLog and its three setTimeout notifications).            *)
(*                                                                         *)
(* Every await is a point where the handler is suspended: one action runs   *)
(* the synchronous code up to the next await, and the outcome of the        *)
(* external call that resumes it is an input of the next action.  Time is   *)
(* counted in units of 100 ms, as the remaining delay of each pending       *)
(* timer.  The time-of-day prefix that addLog puts in front of a message    *)
(* is not modelled: a log entry is its message.                             *)
(*                                                                         *)
(* The two pipelines meet only in `logs`.  SpecLocation is the component    *)
(* with the location pipeline running (the analysis run started at mount    *)
(* stays suspended), SpecRunner is the component with the analysis runner   *)
(* and its timers running (the location invocation started at mount stays   *)
(* suspended), SpecJoint is the component from mount on with both          *)
(* pipelines running and neither control clicked, Spec is the whole         *)
(* component.  SpecGeocode applies getAddressFromCoords to every            *)
(* reverse-geocoding body of AllGeoBodies.                                  *)
(*                                                                         *)
(* SpecNetwork is the HospitalNetwork component of the same file (lines    *)
(* 14-62): the state selector and fetchHospitals.                          *)
(***************************************************************************)
EXTENDS Naturals, Sequences, FiniteSets, TLC

\* ------------------------------------------------------------------ bounds
MaxLocate == 2     \* locateUser() invocations in one behaviour
MaxRuns   == 2     \* runAnalysis() invocations in one behaviour
MaxFetches == 2    \* fetchHospitals() requests in one behaviour

\* --------------------------------------------------------- program constants
Delay1 == 5        \* setTimeout(..., 500)
Delay2 == 9        \* setTimeout(..., 900)
Delay3 == 13       \* setTimeout(..., 1300)

Null == "null"     \* JavaScript null (useState(null), setLocationError(null))

StWaiting   == "Waiting for location..."
StDetecting == "Detecting location..."
StViaIp     == "Estimating location via IP..."
StAnalyzing == "Analyzing local environment..."
StActive    == "Live Data Active"
StNoCity    == "Could not determine city name."
StDataUnavailable  == "Data Unavailable"
StLocationUnknown  == "Location Unknown"

ErrInsights == "Failed to fetch local insights."
ErrLocation == "Automatic location failed. Please click 'Retry Location'."

MsgInit      == "Initializing AI Agent..."
MsgInventory == "Fetching real-time inventory data..."
MsgSymptoms  == "Aggregating community symptom reports..."
MsgModel     == "Running LLaMA-3 reasoning model..."
MsgComplete  == "Analysis complete. Insights generated."

\* ------------------------------------------------------ JavaScript values
\* A JSON field as the code sees it: absent (undefined), a number or a string.
Undef    == [kind |-> "undefined", num |-> 0, str |-> ""]
Num(n)   == [kind |-> "number",    num |-> n, str |-> ""]
Str(s)   == [kind |-> "string",    num |-> 0, str |-> s]

\* ToBoolean, as `&&`, `||` and `if` apply it.
Truthy(v) ==
    CASE v.kind = "undefined" -> FALSE
      [] v.kind = "number"    -> v.num # 0
      [] v.kind = "string"    -> v.str # ""

\* a || b
JsOr(a, b) == IF Truthy(a) THEN a ELSE b

\* ----------------------------------------------------- external responses
\* navigator.geolocation.getCurrentPosition success: pos.coords
GpsPositions == { [latitude |-> Num(12), longitude |-> Num(77)] }

\* https://ipapi.co/json/ bodies: each coordinate absent, zero, a non-zero
\* number, or a non-numeric string.
IpLatitudes  == { Undef, Num(0), Num(13), Str("n/a") }
IpLongitudes == { Undef, Num(0), Num(78) }
IpBodies     == [latitude : IpLatitudes, longitude : IpLongitudes]

\* reverse-geocode bodies used by the pipeline runs
GeoBodies ==
    { [city |-> Str("Pune"), locality |-> Str("Kothrud"),
       principalSubdivision |-> Str("Maharashtra"), countryName |-> Str("India")],
      [city |-> Str(""), locality |-> Str("Kothrud"),
       principalSubdivision |-> Undef, countryName |-> Str("India")],
      [city |-> Undef, locality |-> Str(""),
       principalSubdivision |-> Undef, countryName |-> Undef],
      [city |-> Str("Unknown"), locality |-> Undef,
       principalSubdivision |-> Undef, countryName |-> Str("India")] }

\* /api/insights bodies, AIService.runAnalysis() and getRegionalRisk() results
InsightsBodies == { "insightsA", "insightsB" }
Forecasts      == { "forecastA", "forecastB" }
RegionLists    == { "regionsA", "regionsB" }

\* The options of the state selector: "" (Select State / UT) and two of STATES.
StateOptions == { "", "Goa", "Delhi" }

\* Values of `hospitals`: the initial empty list, lists a response carried,
\* and undefined (a body without a `hospitals` field).
NoHospitals   == "[]"
HospUndefined == "undefined"
HospitalLists == { NoHospitals, "[h1]", "[h1,h2]" }

\* What response.json() gives: a rejection (the body is not JSON), null, or
\* an object whose `hospitals` is a list or is missing.
JsonBodies ==
    { [kind |-> "invalid", hospitals |-> HospUndefined],
      [kind |-> "null", hospitals |-> HospUndefined] }
    \cup [kind : {"object"}, hospitals : HospitalLists \cup {HospUndefined}]

VARIABLES
    analysis,        \* useState<AIAnalysisResult | null>(null)
    regions,         \* useState<RegionStats[]>([])
    isAnalyzing,     \* useState(false)
    logs,            \* useState<string[]>([])
    localInsights,   \* useState<any>(null)
    locationStatus,  \* useState("Waiting for location...")
    locationError,   \* useState<string | null>(null)
    hasGeolocation,  \* navigator.geolocation is present in this browser
    mounted,         \* the mount effect has run
    timers,          \* pending setTimeout callbacks, in creation order
    runs,            \* runAnalysis() invocations, in invocation order
    locs,            \* locateUser() invocations, in invocation order
    logBy,           \* history: who appended each entry of logs
    probe,           \* SpecGeocode: one getAddressFromCoords call, input and result
    selectedState,   \* HospitalNetwork: useState('')
    loading,         \* HospitalNetwork: useState(false)
    hospitals,       \* HospitalNetwork: useState<any[]>([])
    fetches          \* HospitalNetwork: fetchHospitals() requests, in order

vars == << analysis, regions, isAnalyzing, logs, localInsights, locationStatus,
           locationError, hasGeolocation, mounted, timers, runs, locs, logBy,
           probe, selectedState, loading, hospitals, fetches >>

dashVars == << analysis, regions, isAnalyzing, logs, localInsights,
               locationStatus, locationError, hasGeolocation, mounted, timers,
               runs, locs, logBy >>
hnVars == << selectedState, loading, hospitals, fetches >>

runVars == << analysis, regions, isAnalyzing, timers, runs >>
locVars == << localInsights, locationStatus, locationError, locs >>

NoRegions == "[]"   \* the empty region list of useState<RegionStats[]>([])

\* Every reverse-geocoding body in which each of the four fields is absent,
\* empty or a name.
AllGeoBodies ==
    [city                 : { Undef, Str(""), Str("Pune") },
     locality             : { Undef, Str(""), Str("Kothrud") },
     principalSubdivision : { Undef, Str(""), Str("Maharashtra") },
     countryName          : { Undef, Str(""), Str("India") }]

NoAddress == [city |-> Undef, state |-> Undef]
NoProbe ==
    [applied |-> FALSE, ok |-> TRUE, addr |-> NoAddress,
     data |-> [city |-> Undef, locality |-> Undef,
               principalSubdivision |-> Undef, countryName |-> Undef]]

InitComponent ==
    /\ analysis = Null
    /\ regions = NoRegions
    /\ isAnalyzing = FALSE
    /\ logs = << >>
    /\ localInsights = Null
    /\ locationStatus = StWaiting
    /\ locationError = Null
    /\ hasGeolocation \in BOOLEAN
    /\ mounted = FALSE
    /\ timers = << >>
    /\ runs = << >>
    /\ locs = << >>
    /\ logBy = << >>

\* The HospitalNetwork component after construction.
InitNetwork ==
    /\ selectedState = ""
    /\ loading = FALSE
    /\ hospitals = NoHospitals
    /\ fetches = << >>

Init == InitComponent /\ probe = NoProbe /\ InitNetwork

\* ------------------------------------------------------------------ addLog
\* setLogs(prev => [...prev, msg])
addLog(l, msg) == Append(l, msg)

ByRun(r) == [kind |-> "run", id |-> r]
ByLoc(i) == [kind |-> "loc", id |-> i]

\* ---------------------------------------------------- getAddressFromCoords
\* Variant of getAddressFromCoords: the catch block returns the same fallback
\* name as the try block.
getAddressFromCoordsCatchName(ok, data) ==
    IF ok
    THEN [city  |-> JsOr(data.city, JsOr(data.locality,
                      JsOr(data.principalSubdivision, Str("Unknown Location")))),
          state |-> JsOr(data.principalSubdivision, JsOr(data.countryName, Str("")))]
    ELSE [city |-> Str("Unknown Location"), state |-> Str("")]

\* Variant of getAddressFromCoords: locality is tried before city.
getAddressFromCoordsLocalityFirst(ok, data) ==
    IF ok
    THEN [city  |-> JsOr(data.locality, JsOr(data.city,
                      JsOr(data.principalSubdivision, Str("Unknown Location")))),
          state |-> JsOr(data.principalSubdivision, JsOr(data.countryName, Str("")))]
    ELSE [city |-> Str("Unknown"), state |-> Str("")]

\* The value getAddressFromCoords resolves to: `ok = FALSE` is a fetch or
\* res.json() that throws.
getAddressFromCoords(ok, data) ==
    IF ok
    THEN [city  |-> JsOr(data.city, JsOr(data.locality,
                      JsOr(data.principalSubdivision, Str("Unknown Location")))),
          state |-> JsOr(data.principalSubdivision, JsOr(data.countryName, Str("")))]
    ELSE [city |-> Str("Unknown"), state |-> Str("")]

\* `Environment analysis for ${city} complete.`
EnvLogMsg(city) == "Environment analysis for " \o city.str \o " complete."

\* --------------------------------------------------------- location pipeline
\* A locateUser() invocation: where it is suspended, the coordinates and the
\* city it carries, and (history) what it has written last.
\* History fields: ipCoords (the IP lookup answered with a numeric latitude and
\* longitude), outStatus / outError / outInsights (the last status, the error
\* and the insights this invocation has set).
\* Further history fields: geo (what the reverse-geocoding call did: "threw",
\* "noName" when city, locality and principalSubdivision are all absent or
\* empty, "named" otherwise), geoCity / geoState (what getAddressFromCoords
\* resolved to), insights (the state of the /api/insights request) and
\* insightsCalls (how many such requests the invocation has issued), gps (the
\* state of the getCurrentPosition call, "unavailable" without
\* navigator.geolocation) and ipCalls (how many IP lookups it has issued).
IsNumber(v) == v.kind = "number"
IsEmpty(v)  == v.kind = "undefined" \/ (v.kind = "string" /\ v.str = "")

NewLoc(pc) ==
    [pc |-> pc, via |-> "none", lat |-> Undef, lon |-> Undef, city |-> Undef,
     ipCoords |-> FALSE, geo |-> "none", geoCity |-> Undef, geoState |-> Undef,
     insights |-> "idle", insightsCalls |-> 0,
     gps |-> IF pc = "gps" THEN "pending" ELSE "unavailable",
     ipCalls |-> IF pc = "ip" THEN 1 ELSE 0,
     outStatus |-> Null, outError |-> Null, outInsights |-> Null]

\* What the reverse-geocoding call did, for the history field geo.
GeoOutcome(ok, data) ==
    IF ~ok THEN "threw"
    ELSE IF IsEmpty(data.city) /\ IsEmpty(data.locality)
            /\ IsEmpty(data.principalSubdivision)
         THEN "noName" ELSE "named"

\* Variant of CityResolved: the comparison with "Unknown" is left out.
CityResolvedTruthyOnly(city) == Truthy(city)

\* if (city && city !== "Unknown")
CityResolved(city) == Truthy(city) /\ city # Str("Unknown")

\* fetchLocalInsights has returned: its parameters and locals are gone.
Finished(l) == [l EXCEPT !.pc = "done", !.lat = Undef, !.lon = Undef, !.city = Undef]

\* Variant of locateUser: setLocationError(null) is left out.
locateUserKeepsError ==
    /\ Len(locs) < MaxLocate
    /\ IF hasGeolocation
       THEN /\ locationStatus' = StDetecting
            /\ locs' = Append(locs, NewLoc("gps"))
       ELSE /\ locationStatus' = StViaIp
            /\ locs' = Append(locs, NewLoc("ip"))
    /\ UNCHANGED << localInsights, locationError >>

\* locateUser(), up to getCurrentPosition or (no geolocation) the IP fetch.
locateUser ==
    /\ Len(locs) < MaxLocate
    /\ locationError' = Null
    /\ IF hasGeolocation
       THEN /\ locationStatus' = StDetecting
            /\ locs' = Append(locs, NewLoc("gps"))
       ELSE /\ locationStatus' = StViaIp          \* fetchIpLocation()
            /\ locs' = Append(locs, NewLoc("ip"))
    /\ UNCHANGED localInsights

\* getCurrentPosition success callback
GpsSuccess(i, pos) ==
    /\ locs[i].pc = "gps"
    /\ locationStatus' = StAnalyzing             \* fetchLocalInsights(...)
    /\ locs' = [locs EXCEPT ![i].pc = "geocode", ![i].via = "gps",
                            ![i].gps = "ok",
                            ![i].lat = pos.latitude, ![i].lon = pos.longitude]
    /\ UNCHANGED << localInsights, locationError >>

\* getCurrentPosition error callback (denied, timeout, unavailable)
GpsError(i) ==
    /\ locs[i].pc = "gps"
    /\ locationStatus' = StViaIp
    /\ locs' = [locs EXCEPT ![i].pc = "ip", ![i].gps = "failed",
                            ![i].ipCalls = @ + 1]
    /\ UNCHANGED << localInsights, locationError >>

\* fetchIpLocation after `await fetch` / `await res.json()`
IpReturn(i, ok, data) ==
    /\ locs[i].pc = "ip"
    /\ LET coords == ok /\ IsNumber(data.latitude) /\ IsNumber(data.longitude) IN
       IF ok /\ Truthy(data.latitude) /\ Truthy(data.longitude)
       THEN /\ locationStatus' = StAnalyzing      \* fetchLocalInsights(...)
            /\ locs' = [locs EXCEPT ![i].pc = "geocode", ![i].via = "ip",
                                    ![i].lat = data.latitude,
                                    ![i].lon = data.longitude,
                                    ![i].ipCoords = coords]
            /\ UNCHANGED locationError
       ELSE /\ locationError' = ErrLocation
            /\ locationStatus' = StLocationUnknown
            /\ locs' = [locs EXCEPT ![i] = [Finished(@) EXCEPT
                                    !.ipCoords = coords,
                                    !.outStatus = StLocationUnknown,
                                    !.outError = ErrLocation]]
    /\ UNCHANGED localInsights

\* The invocation's record once `await getAddressFromCoords(lat, lon)` has
\* resumed with addr.
Geocoded(l, ok, data, addr) ==
    [l EXCEPT !.geo = GeoOutcome(ok, data), !.geoCity = addr.city,
              !.geoState = addr.state]

\* Variant of GeocodeReturn: the else branch forgets setLocationStatus.
GeocodeReturnNoStatus(i, ok, data) ==
    /\ locs[i].pc = "geocode"
    /\ LET addr == getAddressFromCoords(ok, data) IN
       IF CityResolved(addr.city)
       THEN /\ locs' = [locs EXCEPT ![i] = [Geocoded(@, ok, data, addr) EXCEPT
                                    !.pc = "insights", !.city = addr.city,
                                    !.insights = "pending",
                                    !.insightsCalls = @ + 1]]
       ELSE /\ locs' = [locs EXCEPT ![i] =
                                [Finished(Geocoded(@, ok, data, addr)) EXCEPT
                                    !.outStatus = StNoCity]]
    /\ UNCHANGED << localInsights, locationError, locationStatus >>

\* fetchLocalInsights after `await getAddressFromCoords(lat, lon)`: with a
\* resolved city the /api/insights request is issued.
GeocodeReturn(i, ok, data) ==
    /\ locs[i].pc = "geocode"
    /\ LET addr == getAddressFromCoords(ok, data) IN
       IF CityResolved(addr.city)
       THEN /\ locs' = [locs EXCEPT ![i] = [Geocoded(@, ok, data, addr) EXCEPT
                                    !.pc = "insights", !.city = addr.city,
                                    !.insights = "pending",
                                    !.insightsCalls = @ + 1]]
            /\ UNCHANGED locationStatus
       ELSE /\ locationStatus' = StNoCity
            /\ locs' = [locs EXCEPT ![i] =
                                [Finished(Geocoded(@, ok, data, addr)) EXCEPT
                                    !.outStatus = StNoCity]]
    /\ UNCHANGED << localInsights, locationError >>

\* Variant of InsightsReturn: the catch block also clears the stored insights.
InsightsReturnClears(i, ok, body) ==
    /\ locs[i].pc = "insights"
    /\ IF ok
       THEN /\ localInsights' = body
            /\ locationStatus' = StActive
            /\ logs' = addLog(logs, EnvLogMsg(locs[i].city))
            /\ logBy' = Append(logBy, ByLoc(i))
            /\ locs' = [locs EXCEPT ![i] = [Finished(@) EXCEPT
                                    !.insights = "ok",
                                    !.outStatus = StActive,
                                    !.outInsights = body]]
            /\ UNCHANGED locationError
       ELSE /\ locationStatus' = StDataUnavailable
            /\ locationError' = ErrInsights
            /\ localInsights' = Null
            /\ locs' = [locs EXCEPT ![i] = [Finished(@) EXCEPT
                                    !.insights = "failed",
                                    !.outStatus = StDataUnavailable,
                                    !.outError = ErrInsights]]
            /\ UNCHANGED << logs, logBy >>

\* Variant of InsightsReturn: the catch block also writes a log line.
InsightsReturnLogsFailure(i, ok, body) ==
    /\ locs[i].pc = "insights"
    /\ IF ok
       THEN /\ localInsights' = body
            /\ locationStatus' = StActive
            /\ logs' = addLog(logs, EnvLogMsg(locs[i].city))
            /\ logBy' = Append(logBy, ByLoc(i))
            /\ locs' = [locs EXCEPT ![i] = [Finished(@) EXCEPT
                                    !.insights = "ok",
                                    !.outStatus = StActive,
                                    !.outInsights = body]]
            /\ UNCHANGED locationError
       ELSE /\ locationStatus' = StDataUnavailable
            /\ locationError' = ErrInsights
            /\ logs' = addLog(logs, ErrInsights)
            /\ logBy' = Append(logBy, ByLoc(i))
            /\ locs' = [locs EXCEPT ![i] = [Finished(@) EXCEPT
                                    !.insights = "failed",
                                    !.outStatus = StDataUnavailable,
                                    !.outError = ErrInsights]]
            /\ UNCHANGED localInsights

\* Variant of InsightsReturn: a failed /api/insights request is retried once.
InsightsReturnRetries(i, ok, body) ==
    /\ locs[i].pc = "insights"
    /\ IF ok
       THEN /\ localInsights' = body
            /\ locationStatus' = StActive
            /\ logs' = addLog(logs, EnvLogMsg(locs[i].city))
            /\ logBy' = Append(logBy, ByLoc(i))
            /\ locs' = [locs EXCEPT ![i] = [Finished(@) EXCEPT
                                    !.insights = "ok",
                                    !.outStatus = StActive,
                                    !.outInsights = body]]
            /\ UNCHANGED locationError
       ELSE IF locs[i].insightsCalls < 2
       THEN /\ locs' = [locs EXCEPT ![i].insightsCalls = @ + 1]
            /\ UNCHANGED << localInsights, locationStatus, locationError,
                            logs, logBy >>
       ELSE /\ locationStatus' = StDataUnavailable
            /\ locationError' = ErrInsights
            /\ locs' = [locs EXCEPT ![i] = [Finished(@) EXCEPT
                                    !.insights = "failed",
                                    !.outStatus = StDataUnavailable,
                                    !.outError = ErrInsights]]
            /\ UNCHANGED << localInsights, logs, logBy >>

\* fetchLocalInsights after the /api/insights fetch: `ok = FALSE` is a fetch
\* that throws, a response with !res.ok, or a body res.json() cannot parse.
InsightsReturn(i, ok, body) ==
    /\ locs[i].pc = "insights"
    /\ IF ok
       THEN /\ localInsights' = body
            /\ locationStatus' = StActive
            /\ logs' = addLog(logs, EnvLogMsg(locs[i].city))
            /\ logBy' = Append(logBy, ByLoc(i))
            /\ locs' = [locs EXCEPT ![i] = [Finished(@) EXCEPT
                                    !.insights = "ok",
                                    !.outStatus = StActive,
                                    !.outInsights = body]]
            /\ UNCHANGED locationError
       ELSE /\ locationStatus' = StDataUnavailable
            /\ locationError' = ErrInsights
            /\ locs' = [locs EXCEPT ![i] = [Finished(@) EXCEPT
                                    !.insights = "failed",
                                    !.outStatus = StDataUnavailable,
                                    !.outError = ErrInsights]]
            /\ UNCHANGED << localInsights, logs, logBy >>

\* ------------------------------------------------------------ analysis runner
\* A runAnalysis() invocation: where it is suspended, the state of its two
\* data calls, the forecast it holds in `result`, and (history) the analysis
\* and regions that were published when it started.
NewRun ==
    [pc |-> "forecast", forecast |-> "pending", regional |-> "idle",
     result |-> Null, prevAnalysis |-> analysis, prevRegions |-> regions]

NewTimers(r) ==
    << [run |-> r, msg |-> MsgInventory, rem |-> Delay1],
       [run |-> r, msg |-> MsgSymptoms,  rem |-> Delay2],
       [run |-> r, msg |-> MsgModel,     rem |-> Delay3] >>

\* Variant of runAnalysis: both data calls are started before the first await
\* (as with Promise.all).
runAnalysisBothCalls ==
    /\ Len(runs) < MaxRuns
    /\ isAnalyzing' = TRUE
    /\ logs' = addLog(<< >>, MsgInit)
    /\ logBy' = << ByRun(Len(runs) + 1) >>
    /\ timers' = timers \o NewTimers(Len(runs) + 1)
    /\ runs' = Append(runs, [NewRun EXCEPT !.regional = "pending"])
    /\ UNCHANGED << analysis, regions >>

\* runAnalysis(), up to `await AIService.runAnalysis()`
runAnalysis ==
    /\ Len(runs) < MaxRuns
    /\ isAnalyzing' = TRUE
    /\ logs' = addLog(<< >>, MsgInit)
    /\ logBy' = << ByRun(Len(runs) + 1) >>
    /\ timers' = timers \o NewTimers(Len(runs) + 1)
    /\ runs' = Append(runs, NewRun)
    /\ UNCHANGED << analysis, regions >>

\* Variant of ForecastReturn: setAnalysis(result) and the terminal line come
\* right after the first await.
ForecastReturnPublishes(r, ok, result) ==
    /\ runs[r].pc = "forecast"
    /\ runs[r].forecast = "pending"
    /\ runs' = [runs EXCEPT ![r].pc = IF ok THEN "regional" ELSE "failed",
                            ![r].forecast = IF ok THEN "returned" ELSE "failed",
                            ![r].regional = IF ok THEN "pending" ELSE "idle",
                            ![r].result = IF ok THEN result ELSE Null]
    /\ analysis' = IF ok THEN result ELSE analysis
    /\ logs' = IF ok THEN addLog(logs, MsgComplete) ELSE logs
    /\ logBy' = IF ok THEN Append(logBy, ByRun(r)) ELSE logBy
    /\ UNCHANGED << regions, isAnalyzing, timers >>

\* `const result = await AIService.runAnalysis()` settles; on success the
\* code goes on to call AIService.getRegionalRisk(), on rejection
\* runAnalysis rejects (nothing catches it).
ForecastReturn(r, ok, result) ==
    /\ runs[r].pc = "forecast"
    /\ runs[r].forecast = "pending"
    /\ runs' = [runs EXCEPT ![r].pc = IF ok THEN "regional" ELSE "failed",
                            ![r].forecast = IF ok THEN "returned" ELSE "failed",
                            ![r].regional = IF ok THEN "pending" ELSE "idle",
                            ![r].result = IF ok THEN result ELSE Null]
    /\ UNCHANGED << analysis, regions, isAnalyzing, timers, logs, logBy >>

\* Variant of RegionalReturn: a rejected getRegionalRisk() is swallowed and the
\* forecast is published without the regions.
RegionalReturnPartial(r, ok, regionData) ==
    /\ runs[r].pc = "regional"
    /\ runs[r].regional = "pending"
    /\ analysis' = runs[r].result
    /\ regions' = IF ok THEN regionData ELSE regions
    /\ isAnalyzing' = FALSE
    /\ logs' = IF ok THEN addLog(logs, MsgComplete) ELSE logs
    /\ logBy' = IF ok THEN Append(logBy, ByRun(r)) ELSE logBy
    /\ runs' = [runs EXCEPT ![r].pc = IF ok THEN "done" ELSE "failed",
                            ![r].regional = IF ok THEN "returned" ELSE "failed"]
    /\ UNCHANGED timers

\* `const regionData = await AIService.getRegionalRisk()` settles.
RegionalReturn(r, ok, regionData) ==
    /\ runs[r].pc = "regional"
    /\ runs[r].regional = "pending"
    /\ IF ok
       THEN /\ analysis' = runs[r].result
            /\ regions' = regionData
            /\ isAnalyzing' = FALSE
            /\ logs' = addLog(logs, MsgComplete)
            /\ logBy' = Append(logBy, ByRun(r))
            /\ runs' = [runs EXCEPT ![r].pc = "done", ![r].regional = "returned"]
       ELSE /\ runs' = [runs EXCEPT ![r].pc = "failed", ![r].regional = "failed"]
            /\ UNCHANGED << analysis, regions, isAnalyzing, logs, logBy >>
    /\ UNCHANGED timers

\* --------------------------------------------------------------- timers
RemoveAt(s, k) == SubSeq(s, 1, k - 1) \o SubSeq(s, k + 1, Len(s))

\* The pending timer that is due and was created first.
DueTimer == CHOOSE k \in 1..Len(timers) :
                /\ timers[k].rem = 0
                /\ \A j \in 1..(k - 1) : timers[j].rem # 0

\* A due setTimeout callback runs: () => addLog(msg)
TimerFire ==
    /\ \E k \in 1..Len(timers) : timers[k].rem = 0
    /\ logs' = addLog(logs, timers[DueTimer].msg)
    /\ logBy' = Append(logBy, ByRun(timers[DueTimer].run))
    /\ timers' = RemoveAt(timers, DueTimer)
    /\ UNCHANGED << analysis, regions, isAnalyzing, runs, locVars,
                    hasGeolocation, mounted, probe, hnVars >>

\* 100 ms pass while no pending timer is due.
Tick ==
    /\ timers # << >>
    /\ \A k \in 1..Len(timers) : timers[k].rem > 0
    /\ timers' = [k \in 1..Len(timers) |-> [timers[k] EXCEPT !.rem = @ - 1]]
    /\ UNCHANGED << analysis, regions, isAnalyzing, runs, logs, logBy, locVars,
                    hasGeolocation, mounted, probe, hnVars >>

\* ------------------------------------------------------- the component
\* useEffect(() => { runAnalysis(); locateUser(); }, [])
Mount ==
    /\ ~mounted
    /\ mounted' = TRUE
    /\ runAnalysis
    /\ locateUser
    /\ UNCHANGED << hasGeolocation, probe, hnVars >>

\* Variant of ClickRun: the button is not disabled while a run is in progress.
ClickRunAlways ==
    /\ mounted
    /\ runAnalysis
    /\ UNCHANGED << locVars, hasGeolocation, mounted, probe, hnVars >>

\* The "Run AI Agent" button: onClick={runAnalysis} disabled={isAnalyzing}
ClickRun ==
    /\ mounted
    /\ ~isAnalyzing
    /\ runAnalysis
    /\ UNCHANGED << locVars, hasGeolocation, mounted, probe, hnVars >>

\* The "Retry Location" control, rendered when !localInsights || locationError
ClickRetry ==
    /\ mounted
    /\ (localInsights = Null \/ locationError # Null)
    /\ locateUser
    /\ UNCHANGED << runVars, logs, logBy, hasGeolocation, mounted, probe, hnVars >>

GpsStep      == \E i \in 1..Len(locs) : \E pos \in GpsPositions :
                    GpsSuccess(i, pos) /\ UNCHANGED << runVars, logs, logBy, hasGeolocation, mounted, probe, hnVars >>
GpsErrorStep == \E i \in 1..Len(locs) :
                    GpsError(i) /\ UNCHANGED << runVars, logs, logBy, hasGeolocation, mounted, probe, hnVars >>
IpStep       == \E i \in 1..Len(locs) : \E ok \in BOOLEAN, data \in IpBodies :
                    IpReturn(i, ok, data) /\ UNCHANGED << runVars, logs, logBy, hasGeolocation, mounted, probe, hnVars >>
GeocodeStep  == \E i \in 1..Len(locs) : \E ok \in BOOLEAN, data \in GeoBodies :
                    GeocodeReturn(i, ok, data) /\ UNCHANGED << runVars, logs, logBy, hasGeolocation, mounted, probe, hnVars >>
InsightsStep == \E i \in 1..Len(locs) : \E ok \in BOOLEAN, body \in InsightsBodies :
                    InsightsReturn(i, ok, body) /\ UNCHANGED << runVars, hasGeolocation, mounted, probe, hnVars >>
ForecastStep == \E r \in 1..Len(runs) : \E ok \in BOOLEAN, result \in Forecasts :
                    ForecastReturn(r, ok, result) /\ UNCHANGED << locVars, hasGeolocation, mounted, probe, hnVars >>
RegionalStep == \E r \in 1..Len(runs) : \E ok \in BOOLEAN, regionData \in RegionLists :
                    RegionalReturn(r, ok, regionData) /\ UNCHANGED << locVars, hasGeolocation, mounted, probe, hnVars >>

\* --------------------------------------------------------------------
\* The HospitalNetwork component
\* --------------------------------------------------------------------
\* A fetchHospitals() request: the state in its URL, where the handler is
\* suspended ("fetch": await fetch, "json": await response.json(), "done"),
\* and how it ended ("ok", "failed").
NewFetch(state) == [state |-> state, pc |-> "fetch", result |-> "none"]

\* The component renders: `hospitals.length` (line 70) throws on undefined.
Rendered == hospitals # HospUndefined

\* onChange of the selector.
SelectState(s) ==
    /\ Rendered
    /\ s # selectedState
    /\ selectedState' = s
    /\ UNCHANGED << loading, hospitals, fetches, dashVars, probe >>

\* fetchHospitals up to `await fetch(...)`.
fetchHospitals ==
    IF selectedState = ""
    THEN UNCHANGED << selectedState, loading, hospitals, fetches >>
    ELSE /\ Len(fetches) < MaxFetches
         /\ loading' = TRUE
         /\ fetches' = Append(fetches, NewFetch(selectedState))
         /\ UNCHANGED << selectedState, hospitals >>

\* The "Fetch Live Data" button: disabled={loading || !selectedState}.
ClickFetch ==
    /\ Rendered
    /\ ~(loading \/ selectedState = "")
    /\ fetchHospitals
    /\ UNCHANGED << dashVars, probe >>

\* catch (alert) and finally of fetchHospitals.
FetchFailed(f) ==
    /\ loading' = FALSE
    /\ fetches' = [fetches EXCEPT ![f].pc = "done", ![f].result = "failed"]
    /\ UNCHANGED << selectedState, hospitals >>

\* Variant of FetchReturn: the failure path does not run the finally block.
FetchReturnNoFinally(f, outcome) ==
    /\ fetches[f].pc = "fetch"
    /\ IF outcome = "ok"
       THEN /\ fetches' = [fetches EXCEPT ![f].pc = "json"]
            /\ UNCHANGED << selectedState, loading, hospitals >>
       ELSE /\ fetches' = [fetches EXCEPT ![f].pc = "done", ![f].result = "failed"]
            /\ UNCHANGED << selectedState, loading, hospitals >>

\* fetchHospitals after `await fetch(...)`: the fetch rejected ("error"),
\* answered with a non-success status ("notok") or with success ("ok").
FetchReturn(f, outcome) ==
    /\ fetches[f].pc = "fetch"
    /\ IF outcome = "ok"
       THEN /\ fetches' = [fetches EXCEPT ![f].pc = "json"]
            /\ UNCHANGED << selectedState, loading, hospitals >>
       ELSE FetchFailed(f)

\* fetchHospitals after `await response.json()`: json() rejected, or
\* `data.hospitals` threw on null, or setHospitals(data.hospitals); then the
\* finally block.
JsonReturn(f, body) ==
    /\ fetches[f].pc = "json"
    /\ IF body.kind = "object"
       THEN /\ hospitals' = body.hospitals
            /\ loading' = FALSE
            /\ fetches' = [fetches EXCEPT ![f].pc = "done", ![f].result = "ok"]
            /\ UNCHANGED selectedState
       ELSE FetchFailed(f)

SelectStep == \E s \in StateOptions : SelectState(s)
FetchStep ==
    \E f \in 1..Len(fetches), outcome \in {"error", "notok", "ok"} :
        FetchReturn(f, outcome) /\ UNCHANGED << dashVars, probe >>
JsonStep ==
    \E f \in 1..Len(fetches), body \in JsonBodies :
        JsonReturn(f, body) /\ UNCHANGED << dashVars, probe >>

\* The HospitalNetwork view.
NextNetwork ==
    \/ SelectStep
    \/ ClickFetch
    \/ FetchStep
    \/ JsonStep

\* The location pipeline.
NextLocation ==
    \/ Mount
    \/ ClickRetry
    \/ GpsStep
    \/ GpsErrorStep
    \/ IpStep
    \/ GeocodeStep
    \/ InsightsStep

\* The analysis runner and its timers.
NextRunner ==
    \/ Mount
    \/ ClickRun
    \/ ForecastStep
    \/ RegionalStep
    \/ TimerFire
    \/ Tick

Next ==
    \/ Mount
    \/ ClickRun
    \/ ClickRetry
    \/ GpsStep
    \/ GpsErrorStep
    \/ IpStep
    \/ GeocodeStep
    \/ InsightsStep
    \/ ForecastStep
    \/ RegionalStep
    \/ TimerFire
    \/ Tick
    \/ SelectStep
    \/ ClickFetch
    \/ FetchStep
    \/ JsonStep

\* Both pipelines from mount on, neither control clicked.
NextJoint ==
    \/ Mount
    \/ GpsStep
    \/ GpsErrorStep
    \/ IpStep
    \/ GeocodeStep
    \/ InsightsStep
    \/ ForecastStep
    \/ RegionalStep
    \/ TimerFire
    \/ Tick

\* One call of getAddressFromCoords: the fetch throws (ok = FALSE) or answers
\* with a body of AllGeoBodies.
InitGeocode ==
    /\ InitComponent
    /\ probe \in [applied : {FALSE}, ok : BOOLEAN, addr : {NoAddress},
                  data : AllGeoBodies]
    /\ InitNetwork

ApplyGeocode ==
    /\ ~probe.applied
    /\ probe' = [probe EXCEPT !.applied = TRUE,
                              !.addr = getAddressFromCoords(probe.ok, probe.data)]
    /\ UNCHANGED << analysis, regions, isAnalyzing, logs, localInsights,
                    locationStatus, locationError, hasGeolocation, mounted,
                    timers, runs, locs, logBy, hnVars >>

NextGeocode == ApplyGeocode

SpecLocation == Init /\ [][NextLocation]_vars
SpecJoint    == Init /\ [][NextJoint]_vars
SpecGeocode  == InitGeocode /\ [][NextGeocode]_vars
SpecRunner   == Init /\ [][NextRunner]_vars
SpecNetwork  == Init /\ [][NextNetwork]_vars
Spec         == Init /\ [][Next]_vars

\* ====================================================================
\* Properties
\* ====================================================================
\* Every locateUser() invocation has run to its end.
LocSettled == mounted /\ \A i \in 1..Len(locs) : locs[i].pc = "done"

\* Every runAnalysis() invocation has returned or rejected.
RunsSettled == mounted /\ \A r \in 1..Len(runs) : runs[r].pc \in {"done", "failed"}

\* The entries of logs that the analysis runner appended.
RunnerLog(l, by) ==
    LET F[k \in 0..Len(l)] ==
            IF k = 0 THEN << >>
            ELSE IF by[k].kind = "run" THEN Append(F[k - 1], l[k]) ELSE F[k - 1]
    IN F[Len(l)]

\* C1 (as stated): once every external call of the location pipeline has
\* settled, the status is Active ("Live Data Active") or one of the two error
\* statuses ("Data Unavailable", "Location Unknown"), and nothing else.
C1_ActiveOrError ==
    LocSettled => locationStatus \in {StActive, StDataUnavailable, StLocationUnknown}

\* C1 (amended): once every external call of the location pipeline has
\* settled, the status is Active, one of the two error statuses, or the third
\* terminal status "Could not determine city name."; it is never an in-flight
\* status.
C1_Terminal ==
    LocSettled => locationStatus \in
        {StActive, StDataUnavailable, StLocationUnknown, StNoCity}

\* A settled pipeline that rests in the third terminal status.
C1_Witness ==
    LocSettled /\ Len(locs) = 1 /\ locationStatus = StNoCity /\ locationError = Null

\* C2: an invocation whose device positioning failed and whose IP lookup
\* answered with a (numeric) latitude and longitude goes on to locality
\* resolution with that position and does not end in the "Automatic location
\* failed" error.
C2_FallbackContinues ==
    \A i \in 1..Len(locs) :
        locs[i].ipCoords =>
            /\ locs[i].via = "ip"
            /\ locs[i].outError # ErrLocation
            /\ locs[i].outStatus # StLocationUnknown

\* C3: once all locateUser() invocations have settled, status, error and
\* insights are those of the newest invocation.
C3_NewestWins ==
    (LocSettled /\ Len(locs) >= 2) =>
        LET n == locs[Len(locs)] IN
        /\ locationStatus = n.outStatus
        /\ locationError = n.outError
        /\ (n.outInsights # Null => localInsights = n.outInsights)

\* C5: every entry of the log that an analysis run appended was appended by
\* the current (newest) run.
C5_LogOfCurrentRun ==
    \A k \in 1..Len(logs) : logBy[k].kind = "run" => logBy[k].id = Len(runs)

\* C6: after a single run has completed and its timers have fired, the
\* runner's log lines are the five messages in their fixed order.
C6_FiveLinesInOrder ==
    (Len(runs) = 1 /\ runs[1].pc = "done" /\ timers = << >>) =>
        RunnerLog(logs, logBy) =
            << MsgInit, MsgInventory, MsgSymptoms, MsgModel, MsgComplete >>

\* C7: the terminal line is in the log, and an analysis result or a region
\* list is published, only by a run whose forecast call and regional-risk
\* call have both returned.
C7_PublishAfterBoth ==
    /\ \A k \in 1..Len(logs) :
          logs[k] = MsgComplete =>
              /\ logBy[k].kind = "run"
              /\ runs[logBy[k].id].forecast = "returned"
              /\ runs[logBy[k].id].regional = "returned"
    /\ (analysis # Null \/ regions # NoRegions) =>
          \E r \in 1..Len(runs) :
              /\ runs[r].forecast = "returned"
              /\ runs[r].regional = "returned"
              /\ analysis = runs[r].result

\* A completed run: both calls returned, result published, terminal line logged.
C7_Witness ==
    /\ Len(runs) >= 1
    /\ runs[Len(runs)].pc = "done"
    /\ analysis = runs[Len(runs)].result
    /\ regions # NoRegions
    /\ \E k \in 1..Len(logs) : logs[k] = MsgComplete

C9_FailedRunPublishesNothing ==
    \A r \in 1..Len(runs) :
        runs[r].pc = "failed" =>
            /\ analysis = runs[r].prevAnalysis
            /\ regions = runs[r].prevRegions
            /\ \A k \in 1..Len(logs) :
                  ~(logs[k] = MsgComplete /\ logBy[k] = ByRun(r))

\* A second run whose regional-risk call failed after its forecast returned,
\* with the first run's result still published.
C9_Witness ==
    /\ Len(runs) = 2
    /\ runs[2].pc = "failed"
    /\ runs[2].regional = "failed"
    /\ runs[2].result # Null
    /\ analysis = runs[1].result
    /\ analysis # runs[2].result
    /\ regions # NoRegions

\* C10: once every run has settled and its timers have fired, a failed run
\* has left the in-progress state, so that run() can be triggered again.
C10_FailedRunLeavesAnalyzing ==
    (RunsSettled /\ timers = << >> /\ \E r \in 1..Len(runs) : runs[r].pc = "failed")
        => ~isAnalyzing

\* C11: an invocation whose locality resolution yielded the city "Unknown"
\* has issued no /api/insights request and has stored no insights.
C11_NoInsightsForUnknown ==
    \A i \in 1..Len(locs) :
        locs[i].geoCity = Str("Unknown") =>
            /\ locs[i].insightsCalls = 0
            /\ locs[i].insights = "idle"
            /\ locs[i].outInsights = Null

\* A second invocation ended on the city "Unknown" while the insights stored by
\* the first one are still in place.
C11_Witness ==
    /\ Len(locs) = 2
    /\ locs[2].pc = "done"
    /\ locs[2].geoCity = Str("Unknown")
    /\ locs[2].insightsCalls = 0
    /\ localInsights # Null
    /\ localInsights = locs[1].outInsights

\* C12: an invocation whose reverse-geocoding call succeeded without a usable
\* name (city, locality and principalSubdivision all absent or empty) issues
\* no /api/insights request and ends in "Could not determine city name.".
C12_NoNameStops ==
    \A i \in 1..Len(locs) :
        locs[i].geo = "noName" =>
            /\ locs[i].insightsCalls = 0
            /\ locs[i].pc = "done" => locs[i].outStatus = StNoCity

\* C13: the step in which an /api/insights request fails sets the status
\* "Data Unavailable" and the error "Failed to fetch local insights." and
\* leaves the stored insights as they were.
C13_InsightsFailureKeepsInsights ==
    [][ \A i \in 1..Len(locs) :
            (locs[i].insights = "pending" /\ locs'[i].insights = "failed") =>
                /\ locationStatus' = StDataUnavailable
                /\ locationError' = ErrInsights
                /\ localInsights' = localInsights ]_vars

\* An insights request has failed while insights stored earlier are in place.
C13_Witness ==
    /\ \E i \in 1..Len(locs) : locs[i].insights = "failed"
    /\ locationStatus = StDataUnavailable
    /\ locationError = ErrInsights
    /\ localInsights # Null

\* C14: once the pipeline is in the "Automatic location failed" error state,
\* status and error stay as they are in every step that is not a new
\* locateUser() call.
C14_ErrorPersists ==
    [][ (/\ locationStatus = StLocationUnknown
         /\ locationError = ErrLocation
         /\ Len(locs') = Len(locs)) =>
            (locationStatus' = StLocationUnknown /\ locationError' = ErrLocation)
      ]_vars

C17_GeocodeNeverThrows ==
    \A i \in 1..Len(locs) :
        locs[i].geo = "threw" =>
            /\ locs[i].geoCity = Str("Unknown")
            /\ locs[i].geoState = Str("")
            /\ locs[i].insights = "idle"
            /\ locs[i].outStatus # StDataUnavailable
            /\ locs[i].outError # ErrInsights

\* An invocation whose reverse-geocoding call threw has ended without error.
C17_Witness ==
    \E i \in 1..Len(locs) :
        /\ locs[i].geo = "threw"
        /\ locs[i].pc = "done"
        /\ locs[i].outStatus = StNoCity
        /\ locs[i].outError = Null

\* The first entry of fields that is a non-empty string, else default.
RECURSIVE FirstNonEmpty(_, _)
FirstNonEmpty(fields, default) ==
    IF fields = << >> THEN default
    ELSE IF Head(fields).kind = "string" /\ Head(fields).str # ""
         THEN Head(fields)
         ELSE FirstNonEmpty(Tail(fields), default)

\* C18: for every reverse-geocoding body, the city is the first non-empty of
\* city, locality, principalSubdivision, else "Unknown Location", and the
\* region is the first non-empty of principalSubdivision, countryName, else "".
C18_FieldPriority ==
    (probe.applied /\ probe.ok) =>
        /\ probe.addr.city =
              FirstNonEmpty(<< probe.data.city, probe.data.locality,
                               probe.data.principalSubdivision >>,
                            Str("Unknown Location"))
        /\ probe.addr.state =
              FirstNonEmpty(<< probe.data.principalSubdivision,
                               probe.data.countryName >>, Str(""))

\* City absent, locality empty: the city falls through to principalSubdivision.
C18_Witness ==
    /\ probe.applied /\ probe.ok
    /\ probe.data.city = Undef
    /\ probe.data.locality = Str("")
    /\ probe.data.principalSubdivision = Str("Maharashtra")
    /\ probe.addr.city = Str("Maharashtra")
    /\ probe.addr.state = Str("Maharashtra")

\* C19: the IP lookup is accepted as a position exactly when latitude and
\* longitude are both present and numeric, a value of 0 included.
C19_AcceptedIffNumeric ==
    \A i \in 1..Len(locs) : (locs[i].via = "ip") <=> locs[i].ipCoords

\* C20: whenever the status is "Live Data Active" there is no error message
\* and insights are stored.
C20_ActiveWithoutError ==
    locationStatus = StActive => (locationError = Null /\ localInsights # Null)

\* C21: at most one runAnalysis() invocation has a data call pending, and the
\* in-progress flag is set as long as one has.
C21_RunsNeverOverlap ==
    /\ Cardinality({ r \in 1..Len(runs) :
                        runs[r].forecast = "pending" \/ runs[r].regional = "pending" }) <= 1
    /\ \A r \in 1..Len(runs) :
          (runs[r].forecast = "pending" \/ runs[r].regional = "pending")
              => (isAnalyzing /\ ~ENABLED ClickRun)
    /\ \A r \in 1..Len(runs) : r < Len(runs) => runs[r].pc = "done"

\* A second run, started with the button after the first one completed, has
\* its forecast call pending.
C21_Witness ==
    /\ Len(runs) = 2
    /\ runs[1].pc = "done"
    /\ runs[2].forecast = "pending"
    /\ isAnalyzing

\* C22: an invocation issues the IP lookup only without navigator.geolocation
\* or after the getCurrentPosition error callback, never after device
\* positioning succeeded, and it issues at most one IP lookup and at most one
\* /api/insights request.
C22_LookupOnlyOnDeviceFailure ==
    \A i \in 1..Len(locs) :
        /\ locs[i].gps = "ok" => (locs[i].ipCalls = 0 /\ locs[i].via = "gps")
        /\ locs[i].ipCalls > 0 => locs[i].gps \in {"unavailable", "failed"}
        /\ locs[i].ipCalls <= 1
        /\ locs[i].insightsCalls <= 1

\* Device positioning succeeded and the insights fetch failed: one insights
\* request, no IP lookup.
C22_Witness ==
    \E i \in 1..Len(locs) :
        /\ locs[i].gps = "ok"
        /\ locs[i].insights = "failed"
        /\ locs[i].insightsCalls = 1
        /\ locs[i].ipCalls = 0

\* C23: a fetchHospitals() request is issued only with a state selected and
\* sets `loading`; with no state selected and nothing loading no step changes
\* loading, hospitals or the requests; `loading` is set while a request is
\* pending and is cleared by the step that settles it, whatever the outcome;
\* and a step that settles a request as failed leaves `hospitals` as it was.
C23_FetchStep ==
    /\ Len(fetches') > Len(fetches) =>
          /\ selectedState # ""
          /\ fetches'[Len(fetches')].state = selectedState
          /\ loading'
    /\ (selectedState = "" /\ ~loading) =>
          UNCHANGED << loading, hospitals, fetches >>
    /\ \A f \in 1..Len(fetches) :
          /\ fetches[f].pc # "done" => loading
          /\ fetches'[f].pc # "done" => loading'
          /\ (fetches[f].pc # "done" /\ fetches'[f].pc = "done") =>
                /\ ~loading'
                /\ fetches'[f].result = "failed" => hospitals' = hospitals
C23_LoadingAndFailure == [][C23_FetchStep]_vars

\* A list is displayed, and a later request has failed: the list is still
\* displayed and `loading` is cleared.
C23_Witness ==
    /\ Len(fetches) = 2
    /\ fetches[1].result = "ok"
    /\ fetches[2].result = "failed"
    /\ fetches[2].pc = "done"
    /\ hospitals = "[h1,h2]"
    /\ ~loading

====
